---- MODULE Spec2Model ----
(***************************************************************************)
(* LibreCard: fan-out directory copy (copy_dirs / read_file_copy_batch),   *)
(* hash verification (hash_dirs / compute_file_hash) and the part of the   *)
(* GUI update loop that launches them and polls the progress channel.      *)
(*                                                                         *)
(* Files are identified by their index in the enumeration returned by      *)
(* flatten_filetree; a file's content is a sequence of bytes.  Every I/O   *)
(* call may succeed or fail.  A read may return fewer bytes than asked.    *)
(***************************************************************************)
EXTENDS Integers, Sequences, FiniteSets, TLC

\* ---------------------------------------------------------------- bounds
MaxFiles == 2          \* files in the source tree
MaxTreeBytes == 3      \* bytes in the source tree, all files together
MaxDests == 2          \* destination roots
BUFFER_SIZE == 2       \* chunk size (1 MiB in the program, scaled down)

Byte == 0..1
Stale == <<1>>         \* content of a destination file left by an earlier run

\* ---------------------------------------------------------------- state
VARIABLES
  source,          \* source tree: file contents in enumeration order
  ndest,           \* number of destination roots
  dest,            \* dest[j][i]: file i under destination root j
  \* copy_dirs
  pc,              \* position of the copy task
  files,           \* the enumeration (file indexes)
  file_idx,        \* position of `for file in files`
  progress,        \* the binding `progress` of copy_dirs line 145
  dirs_total,      \* total_bytes of copy_dirs
  file_result,     \* what read_file_copy_batch returned for the current file
  \* read_file_copy_batch
  source_file,     \* source handle open
  pos,             \* read position of the source handle
  dest_files,      \* number of destination handles in dest_files
  total_bytes,
  buffer1, buffer2,
  read_buffer, write_buffer,   \* which buffer each reference points to
  bytes_read,
  read_future,     \* "none" | "pending" | "ok" | "err"
  read_n,          \* bytes the completed read returned
  write_futures,   \* per destination: "none" | "pending" | "ok" | "err"
  flushed,         \* destinations flushed so far
  \* progress channel (tokio watch) and the task's completion message
  chan,
  copy_msg,
  \* GUI (LibreCardApp)
  stage, gui_progress, completed, error_message, total_bytes_copied,
  source_directory,          \* a source directory is selected
  destination_directories,   \* per entry: a directory is selected
  \* verification task
  hpc, hfiles, hash_idx, hash_futures, hash_values, report, checksum_msg,
  \* history of the current read_file_copy_batch call / copy_dirs run
  reads,           \* sizes of the non-empty reads, in order
  nwrites,         \* write_all calls issued
  landed,          \* per destination: bytes the writes put in the file
  filled,          \* the buffer the last non-empty read filled (0: none)
  sent             \* Progress values published by copy_dirs, in order

fsVars   == <<source, ndest, dest>>
dirVars  == <<files, file_idx, progress, dirs_total, file_result>>
fileVars == <<source_file, pos, dest_files, total_bytes, buffer1, buffer2,
              read_buffer, write_buffer, bytes_read, read_future, read_n,
              write_futures, flushed>>
chanVars == <<chan, copy_msg>>
inputVars == <<source_directory, destination_directories>>
guiVars  == <<stage, gui_progress, completed, error_message,
              total_bytes_copied, inputVars>>
hashVars == <<hpc, hfiles, hash_idx, hash_futures, hash_values, report,
              checksum_msg>>
histVars == <<reads, nwrites, landed, filled, sent>>
vars == <<fsVars, pc, dirVars, fileVars, chanVars, guiVars, hashVars, histVars>>

\* -------------------------------------------------------------- helpers
Min(a, b) == IF a < b THEN a ELSE b

RECURSIVE Sum(_)
Sum(s) == IF s = <<>> THEN 0 ELSE Head(s) + Sum(Tail(s))

Contents(n) == UNION {[1..k -> Byte] : k \in 0..n}

RECURSIVE Trees(_, _)
Trees(k, budget) ==
  IF k = 0 THEN {<<>>}
  ELSE {<<>>} \cup UNION {{<<c>> \o t : t \in Trees(k - 1, budget - Len(c))} :
                          c \in Contents(budget)}

Zeros == [x \in 1..BUFFER_SIZE |-> 0]

\* io::Result
NoErr == [op |-> "none", who |-> 0]
None == [kind |-> "none", val |-> 0, err |-> NoErr]
Ok(v) == [kind |-> "ok", val |-> v, err |-> NoErr]
Err(op, who) == [kind |-> "err", val |-> 0, err |-> [op |-> op, who |-> who]]

\* Progress
ProgressDefault == [total |-> 0, completed |-> 0]

\* mutant of increment: counts the file twice
increment_twice(p) == [total |-> p.total, completed |-> p.completed + 2]

increment(p) == [total |-> p.total, completed |-> p.completed + 1]

\* the buffer a reference points to
Buf(r) == IF r = 1 THEN buffer1 ELSE buffer2

\* buffer b after a read put the n bytes at source offset `at` at its start
Fill(b, content, at, n) ==
  [x \in 1..BUFFER_SIZE |-> IF x <= n THEN content[at + x] ELSE b[x]]

\* sizes a read of the source at offset `at` may return: 0 at end of file only
ReadSizes(content, at) ==
  IF at >= Len(content) THEN {0}
  ELSE 1..Min(BUFFER_SIZE, Len(content) - at)

NoFile == [exists |-> FALSE, data |-> <<>>]

\* mutant of CreateFile: opens for writing without truncating
CreateFileKeep(f) == [exists |-> TRUE, data |-> f.data]

\* File::create on the path of file f: the file is there, and empty
CreateFile(f) == [exists |-> TRUE, data |-> <<>>]

\* ------------------------------------------------------------------ Init
\* the operator has selected the source and one directory per destination
\* entry, the destination roots
Selected ==
  /\ source_directory = TRUE
  /\ destination_directories = [j \in 1..ndest |-> TRUE]

\* the GUI shows the Input stage, no copy runs, no file has been hashed
Idle ==
  /\ pc = "idle"
  /\ files = <<>> /\ file_idx = 0 /\ progress = ProgressDefault
  /\ dirs_total = 0 /\ file_result = None
  /\ source_file = FALSE /\ pos = 0 /\ dest_files = 0 /\ total_bytes = 0
  /\ buffer1 = Zeros /\ buffer2 = Zeros
  /\ read_buffer = 2 /\ write_buffer = 1
  /\ bytes_read = 0 /\ read_future = "none" /\ read_n = 0
  /\ write_futures = [j \in 1..ndest |-> "none"]
  /\ flushed = 0
  /\ chan = [value |-> ProgressDefault, version |-> 0, closed |-> FALSE,
             receivers |-> 0]
  /\ copy_msg = None
  /\ stage = "Input" /\ gui_progress = ProgressDefault /\ completed = FALSE
  /\ error_message = NoErr /\ total_bytes_copied = -1
  /\ hfiles = <<>> /\ hash_idx = 0
  /\ hash_futures = [k \in 0..ndest |-> "none"]
  /\ hash_values = [k \in 0..ndest |-> 0]
  /\ checksum_msg = None
  /\ reads = <<>> /\ nwrites = 0
  /\ landed = [j \in 1..ndest |-> <<>>]
  /\ filled = 0
  /\ sent = <<>>

Init ==
  /\ source \in Trees(MaxFiles, MaxTreeBytes)
  /\ ndest \in 1..MaxDests
  /\ \E stale \in 0..1 :
       dest = [j \in 1..ndest |->
                 [i \in 1..Len(source) |->
                    IF j <= stale THEN [exists |-> TRUE, data |-> Stale]
                    ELSE NoFile]]
  /\ report = <<>> /\ hpc = "idle"
  /\ Selected
  /\ Idle


\* ------------------------------------------------- read_file_copy_batch
\* return of read_file_copy_batch: its handles are dropped with its frame
FileReturn(r) ==
  /\ file_result' = r
  /\ source_file' = FALSE
  /\ pc' = "file_return"

\* line 52: File::open(&source_path)
OpenSource ==
  /\ pc = "open"
  /\ \/ /\ source_file' = TRUE
        /\ pc' = "create"
        /\ UNCHANGED file_result
     \/ FileReturn(Err("open", 0))
  /\ UNCHANGED <<fsVars, files, file_idx, progress, dirs_total, pos,
                 dest_files, total_bytes, buffer1, buffer2, read_buffer,
                 write_buffer, bytes_read, read_future, read_n,
                 write_futures, flushed, chanVars, guiVars, hashVars,
                 histVars>>

\* mutant of CreateDest: the destinations are created together, so a
\* failed one leaves all the others created
CreateDestConcurrent ==
  /\ pc = "create"
  /\ dest_files < ndest
  /\ LET j == dest_files + 1 IN
       \/ /\ dest' = [dest EXCEPT ![j][file_idx] = CreateFile(@)]
          /\ dest_files' = j
          /\ UNCHANGED <<pc, file_result, source_file>>
       \/ /\ FileReturn(Err("create", j))
          /\ dest' = [d \in 1..ndest |->
                        IF d = j THEN dest[d]
                        ELSE [dest[d] EXCEPT ![file_idx] = CreateFile(@)]]
          /\ UNCHANGED dest_files
  /\ UNCHANGED <<source, ndest, files, file_idx, progress, dirs_total, pos,
                 total_bytes, buffer1, buffer2, read_buffer, write_buffer,
                 bytes_read, read_future, read_n, write_futures, flushed,
                 chanVars, guiVars, hashVars, histVars>>

\* lines 62-70: File::create(&path) for the next destination path; it makes
\* the file or truncates the one that is there
CreateDest ==
  /\ pc = "create"
  /\ dest_files < ndest
  /\ LET j == dest_files + 1 IN
       \/ /\ dest' = [dest EXCEPT ![j][file_idx] = CreateFile(@)]
          /\ dest_files' = j
          /\ UNCHANGED <<pc, file_result, source_file>>
       \/ /\ FileReturn(Err("create", j))
          /\ UNCHANGED <<dest, dest_files>>
  /\ UNCHANGED <<source, ndest, files, file_idx, progress, dirs_total, pos,
                 total_bytes, buffer1, buffer2, read_buffer, write_buffer,
                 bytes_read, read_future, read_n, write_futures, flushed,
                 chanVars, guiVars, hashVars, histVars>>

\* lines 72-86: the buffers, and the first read, into write_buffer
FirstRead ==
  /\ pc = "create"
  /\ dest_files = ndest
  /\ total_bytes' = 0
  /\ read_buffer' = 2 /\ write_buffer' = 1
  /\ buffer2' = Zeros
  /\ \/ \E n \in ReadSizes(source[file_idx], pos) :
          /\ buffer1' = Fill(Zeros, source[file_idx], pos, n)
          /\ pos' = pos + n
          /\ bytes_read' = n
          /\ reads' = IF n = 0 THEN reads ELSE Append(reads, n)
          /\ filled' = IF n = 0 THEN filled ELSE 1
          /\ IF n = 0
             THEN FileReturn(Ok(0))
             ELSE /\ pc' = "swap"
                  /\ UNCHANGED <<file_result, source_file>>
     \/ /\ FileReturn(Err("read", 0))
        /\ buffer1' = Zeros
        /\ UNCHANGED <<pos, bytes_read, reads, filled>>
  /\ UNCHANGED <<fsVars, files, file_idx, progress, dirs_total, dest_files,
                 read_future, read_n, write_futures, flushed, chanVars,
                 guiVars, hashVars, nwrites, landed, sent>>

\* lines 90-98: swap the references, then build the write futures (one per
\* destination, from write_buffer[..bytes_read]) and the read future (into
\* read_buffer)
SwapAndIssue ==
  /\ pc = "swap"
  /\ read_buffer' = write_buffer
  /\ write_buffer' = read_buffer
  /\ write_futures' = [j \in 1..ndest |-> "pending"]
  /\ read_future' = "pending"
  /\ nwrites' = nwrites + ndest
  /\ pc' = "join"
  /\ UNCHANGED <<fsVars, dirVars, source_file, pos, dest_files, total_bytes,
                 buffer1, buffer2, bytes_read, read_n, flushed, chanVars,
                 guiVars, hashVars, reads, landed, filled, sent>>

\* file.write_all(&write_buffer[..bytes_read]) of destination j runs to its
\* end: every byte lands, or it fails after some of them did
WriteComplete(j) ==
  /\ pc = "join"
  /\ write_futures[j] = "pending"
  /\ LET chunk == SubSeq(Buf(write_buffer), 1, bytes_read) IN
       \/ /\ dest' = [dest EXCEPT ![j][file_idx].data = @ \o chunk]
          /\ landed' = [landed EXCEPT ![j] = @ \o chunk]
          /\ write_futures' = [write_futures EXCEPT ![j] = "ok"]
       \/ \E k \in 0..(bytes_read - 1) :
            /\ dest' = [dest EXCEPT ![j][file_idx].data =
                          @ \o SubSeq(chunk, 1, k)]
            /\ landed' = [landed EXCEPT ![j] = @ \o SubSeq(chunk, 1, k)]
            /\ write_futures' = [write_futures EXCEPT ![j] = "err"]
  /\ UNCHANGED <<source, ndest, pc, dirVars, source_file, pos, dest_files,
                 total_bytes, buffer1, buffer2, read_buffer, write_buffer,
                 bytes_read, read_future, read_n, flushed, chanVars,
                 guiVars, hashVars, reads, nwrites, filled, sent>>

\* source_file.read(read_buffer) runs to its end
ReadComplete ==
  /\ pc = "join"
  /\ read_future = "pending"
  /\ \/ \E n \in ReadSizes(source[file_idx], pos) :
          /\ IF read_buffer = 1
             THEN /\ buffer1' = Fill(buffer1, source[file_idx], pos, n)
                  /\ UNCHANGED buffer2
             ELSE /\ buffer2' = Fill(buffer2, source[file_idx], pos, n)
                  /\ UNCHANGED buffer1
          /\ pos' = pos + n
          /\ read_n' = n
          /\ read_future' = "ok"
          /\ reads' = IF n = 0 THEN reads ELSE Append(reads, n)
          /\ filled' = IF n = 0 THEN filled ELSE read_buffer
     \/ /\ read_future' = "err"
        /\ UNCHANGED <<buffer1, buffer2, pos, read_n, reads, filled>>
  /\ UNCHANGED <<fsVars, pc, dirVars, source_file, dest_files, total_bytes,
                 read_buffer, write_buffer, bytes_read, write_futures,
                 flushed, chanVars, guiVars, hashVars, nwrites, landed,
                 sent>>

\* mutant of Joined: the join gives up at the first failed future
JoinedFirstError ==
  \/ read_future = "err"
  \/ \E j \in 1..ndest : write_futures[j] = "err"
  \/ /\ read_future = "ok"
     /\ \A j \in 1..ndest : write_futures[j] = "ok"

\* mutant of Joined: only the read is awaited, the writes are left running
JoinedReadOnly == read_future \in {"ok", "err"}

\* join! has every future's result
Joined ==
  /\ read_future \in {"ok", "err"}
  /\ \A j \in 1..ndest : write_futures[j] \in {"ok", "err"}

FirstWriteErr == CHOOSE j \in 1..ndest :
                   /\ write_futures[j] = "err"
                   /\ \A k \in 1..(j - 1) : write_futures[k] # "err"

\* lines 101-124: after the join, the write results in order, then the read
AfterJoin ==
  /\ pc = "join"
  /\ Joined
  /\ IF \E j \in 1..ndest : write_futures[j] = "err"
     THEN /\ FileReturn(Err("write", FirstWriteErr))
          /\ UNCHANGED <<bytes_read, total_bytes, flushed>>
     ELSE IF read_future = "err"
     THEN /\ FileReturn(Err("read", 0))
          /\ UNCHANGED <<bytes_read, total_bytes, flushed>>
     ELSE /\ bytes_read' = read_n
          /\ total_bytes' = total_bytes + read_n
          /\ pc' = IF read_n = 0 THEN "flush" ELSE "swap"
          /\ flushed' = 0
          /\ UNCHANGED <<file_result, source_file>>
  /\ UNCHANGED <<fsVars, files, file_idx, progress, dirs_total, pos,
                 dest_files, buffer1, buffer2, read_buffer, write_buffer,
                 read_future, read_n, write_futures, chanVars, guiVars,
                 hashVars, histVars>>

\* lines 128-133: file.flush() of the next destination
Flush ==
  /\ pc = "flush"
  /\ flushed < dest_files
  /\ \/ /\ flushed' = flushed + 1
        /\ UNCHANGED <<pc, file_result, source_file>>
     \/ /\ FileReturn(Err("flush", flushed + 1))
        /\ UNCHANGED flushed
  /\ UNCHANGED <<fsVars, files, file_idx, progress, dirs_total, pos,
                 dest_files, total_bytes, buffer1, buffer2, read_buffer,
                 write_buffer, bytes_read, read_future, read_n,
                 write_futures, chanVars, guiVars, hashVars, histVars>>

\* mutant of ReturnTotal: Ok is returned without waiting for the flushes
ReturnTotalEarly ==
  /\ pc = "flush"
  /\ FileReturn(Ok(total_bytes))
  /\ UNCHANGED <<fsVars, files, file_idx, progress, dirs_total, pos,
                 dest_files, total_bytes, buffer1, buffer2, read_buffer,
                 write_buffer, bytes_read, read_future, read_n,
                 write_futures, flushed, chanVars, guiVars, hashVars,
                 histVars>>

\* line 135: Ok(total_bytes)
ReturnTotal ==
  /\ pc = "flush"
  /\ flushed = dest_files
  /\ FileReturn(Ok(total_bytes))
  /\ UNCHANGED <<fsVars, files, file_idx, progress, dirs_total, pos,
                 dest_files, total_bytes, buffer1, buffer2, read_buffer,
                 write_buffer, bytes_read, read_future, read_n,
                 write_futures, flushed, chanVars, guiVars, hashVars,
                 histVars>>


\* ------------------------------------------------------------ copy_dirs
\* return of copy_dirs: the task's future resolves to CopyCompleted(result)
\* and the Sender it owned is dropped, which closes the channel
CopyReturn(r) ==
  /\ copy_msg' = r
  /\ chan' = [chan EXCEPT !.closed = TRUE]
  /\ pc' = "returned"

\* lines 143-149: flatten_filetree(source)?, then the locals
Flatten ==
  /\ pc = "flatten"
  /\ \/ /\ files' = [i \in 1..Len(source) |-> i]
        /\ progress' = [total |-> Len(source), completed |-> 0]
        /\ dirs_total' = 0
        /\ file_idx' = 1
        /\ pc' = "loop"
        /\ UNCHANGED chanVars
     \/ /\ CopyReturn(Err("read_dir", 0))
        /\ UNCHANGED <<files, progress, dirs_total, file_idx>>
  /\ UNCHANGED <<fsVars, file_result, fileVars, guiVars, hashVars, histVars>>

\* lines 151-162: the next file: its paths, create_dir_all(parent) for each
\* destination path, then the call of read_file_copy_batch
CreateDirs ==
  /\ pc = "loop"
  /\ file_idx <= Len(files)
  /\ \/ /\ pc' = "open"
        /\ file_result' = None
        /\ UNCHANGED chanVars
     \/ /\ \E j \in 1..ndest : CopyReturn(Err("mkdir", j))
        /\ UNCHANGED file_result
  /\ UNCHANGED <<fsVars, files, file_idx, progress, dirs_total, fileVars,
                 guiVars, hashVars, histVars>>

\* the frame of read_file_copy_batch is gone once its result is taken
DropFileFrame ==
  /\ source_file' = FALSE
  /\ pos' = 0 /\ dest_files' = 0 /\ total_bytes' = 0
  /\ buffer1' = Zeros /\ buffer2' = Zeros
  /\ read_buffer' = 2 /\ write_buffer' = 1
  /\ bytes_read' = 0 /\ read_future' = "none" /\ read_n' = 0
  /\ write_futures' = [j \in 1..ndest |-> "none"]
  /\ flushed' = 0
  /\ reads' = <<>> /\ nwrites' = 0
  /\ landed' = [j \in 1..ndest |-> <<>>]
  /\ filled' = 0

\* mutant of FileDone: a failed file is logged and skipped
FileDoneContinue ==
  /\ pc = "file_return"
  /\ dirs_total' = IF file_result.kind = "ok"
                   THEN dirs_total + file_result.val ELSE dirs_total
  /\ pc' = "send"
  /\ DropFileFrame
  /\ UNCHANGED <<fsVars, files, file_idx, progress, file_result, chanVars,
                 guiVars, hashVars, sent>>

\* lines 162-168: the match on what read_file_copy_batch returned
FileDone ==
  /\ pc = "file_return"
  /\ IF file_result.kind = "ok"
     THEN /\ dirs_total' = dirs_total + file_result.val
          /\ pc' = "send"
          /\ UNCHANGED chanVars
     ELSE /\ CopyReturn(file_result)
          /\ UNCHANGED dirs_total
  /\ DropFileFrame
  /\ UNCHANGED <<fsVars, files, file_idx, progress, file_result, guiVars,
                 hashVars, sent>>

\* mutant of SendProgress: a slot that keeps the value it holds until it is
\* taken, and drops the new one
SendProgressKeepOldest ==
  /\ pc = "send"
  /\ chan' = IF chan.version = 0
             THEN [chan EXCEPT !.value = increment(progress),
                               !.version = @ + 1]
             ELSE chan
  /\ sent' = Append(sent, increment(progress))
  /\ file_idx' = file_idx + 1
  /\ pc' = "loop"
  /\ UNCHANGED <<fsVars, files, progress, dirs_total, file_result, fileVars,
                 copy_msg, guiVars, hashVars, reads, nwrites, landed, filled>>

\* lines 170-171: `let progress = progress.increment();` binds a new value
\* for this iteration only, the binding of line 145 stays as it is;
\* rx.send(progress).unwrap() panics when no receiver is left
SendProgress ==
  /\ pc = "send"
  /\ IF chan.receivers = 0
     THEN /\ pc' = "panicked"
          /\ chan' = [chan EXCEPT !.closed = TRUE]
          /\ UNCHANGED <<file_idx, sent>>
     ELSE /\ chan' = [chan EXCEPT !.value = increment(progress),
                                  !.version = @ + 1]
          /\ sent' = Append(sent, increment(progress))
          /\ file_idx' = file_idx + 1
          /\ pc' = "loop"
  /\ UNCHANGED <<fsVars, files, progress, dirs_total, file_result, fileVars,
                 copy_msg, guiVars, hashVars, reads, nwrites, landed, filled>>

\* line 173: Ok(total_bytes)
CopyDirsOk ==
  /\ pc = "loop"
  /\ file_idx > Len(files)
  /\ CopyReturn(Ok(dirs_total))
  /\ UNCHANGED <<fsVars, dirVars, fileVars, guiVars, hashVars, histVars>>

\* ------------------------------------------------------------------ GUI
\* watch::channel(Progress::default()): one Sender, one Receiver
NewChannel == [value |-> ProgressDefault, version |-> 0, closed |-> FALSE,
               receivers |-> 1]

\* rx.has_changed(): an error once the Sender is gone, else whether a value
\* was sent since the Receiver last marked one seen (borrow() marks none)
HasChanged == IF chan.closed THEN "Err"
              ELSE IF chan.version # 0 THEN "true" ELSE "false"

\* lines 122-126: the destination entries that hold a directory
valid_destinations ==
  {i \in 1..Len(destination_directories) : destination_directories[i]}

\* the error a failed validation, or a failed listing, records
InputErr(what) == [op |-> what, who |-> 0]

\* mutant of StartCopy: no validation
StartCopyUnvalidated ==
  /\ stage = "Input"
  /\ ndest' = Cardinality(valid_destinations)
  /\ chan' = NewChannel
  /\ stage' = "Copying"
  /\ gui_progress' = ProgressDefault
  /\ completed' = FALSE
  /\ pc' = "flatten"
  /\ sent' = <<>>
  /\ UNCHANGED <<source, dest, dirVars, fileVars, copy_msg, error_message,
                 total_bytes_copied, inputVars, hashVars, reads, nwrites,
                 landed, filled>>

\* update(StartCopy), lines 115-156, sent by the Input view's button: the
\* validation, then the channel, the Copying stage and the copy task over
\* the selected destinations
StartCopy ==
  /\ stage = "Input"
  /\ IF ~source_directory
     THEN /\ error_message' = InputErr("no_source")
          /\ UNCHANGED <<ndest, chan, stage, gui_progress, completed, pc,
                         sent>>
     ELSE IF valid_destinations = {}
     THEN /\ error_message' = InputErr("no_destination")
          /\ UNCHANGED <<ndest, chan, stage, gui_progress, completed, pc,
                         sent>>
     ELSE /\ ndest' = Cardinality(valid_destinations)
          /\ chan' = NewChannel
          /\ stage' = "Copying"
          /\ gui_progress' = ProgressDefault
          /\ completed' = FALSE
          /\ pc' = "flatten"
          /\ sent' = <<>>
          /\ UNCHANGED error_message
  /\ UNCHANGED <<source, dest, dirVars, fileVars, copy_msg,
                 total_bytes_copied, inputVars, hashVars, reads, nwrites,
                 landed, filled>>

\* update(Tick), lines 66-88; the subscription (lines 319-329) ticks while
\* copying and not completed, and while checksumming
Tick ==
  /\ \/ stage = "Copying" /\ ~completed
     \/ stage = "Checksumming"
  /\ gui_progress' = IF HasChanged = "true" THEN chan.value ELSE gui_progress
  /\ UNCHANGED <<fsVars, pc, dirVars, fileVars, chanVars, stage, completed,
                 error_message, total_bytes_copied, inputVars, hashVars,
                 histVars>>

\* mutant of CopyCompleted: a failed copy leaves the Copying stage shown
CopyCompletedStay ==
  /\ copy_msg.kind # "none"
  /\ copy_msg' = None
  /\ IF copy_msg.kind = "ok"
     THEN /\ total_bytes_copied' = copy_msg.val
          /\ completed' = IF stage = "Copying" THEN TRUE ELSE completed
          /\ UNCHANGED <<stage, error_message, chan>>
     ELSE /\ error_message' = copy_msg.err
          /\ UNCHANGED <<stage, chan, total_bytes_copied, completed>>
  /\ UNCHANGED <<fsVars, pc, dirVars, fileVars, gui_progress, inputVars,
                 hashVars, histVars>>

\* update(CopyCompleted(result)), lines 158-172
CopyCompleted ==
  /\ copy_msg.kind # "none"
  /\ copy_msg' = None
  /\ IF copy_msg.kind = "ok"
     THEN /\ total_bytes_copied' = copy_msg.val
          /\ completed' = IF stage = "Copying" THEN TRUE ELSE completed
          /\ UNCHANGED <<stage, error_message, chan>>
     ELSE /\ stage' = "Input"
          /\ error_message' = copy_msg.err
          /\ chan' = [chan EXCEPT !.receivers = 0]
          /\ UNCHANGED <<total_bytes_copied, completed>>
  /\ UNCHANGED <<fsVars, pc, dirVars, fileVars, gui_progress, inputVars,
                 hashVars, histVars>>

\* update(DismissError), lines 272-275, sent by the error panel's button
DismissError ==
  /\ error_message # NoErr
  /\ error_message' = NoErr
  /\ UNCHANGED <<fsVars, pc, dirVars, fileVars, chanVars, stage, gui_progress,
                 completed, total_bytes_copied, inputVars, hashVars,
                 histVars>>


\* mutant of StartChecksum: the stage is not looked at
StartChecksumUnchecked ==
  /\ chan' = NewChannel
  /\ stage' = "Checksumming"
  /\ gui_progress' = ProgressDefault
  /\ hpc' = "flatten"
  /\ UNCHANGED <<fsVars, pc, dirVars, fileVars, copy_msg, completed,
                 error_message, total_bytes_copied, inputVars, hfiles,
                 hash_idx, hash_futures, hash_values, report, checksum_msg,
                 histVars>>

\* update(StartChecksum), lines 174-222, sent by the Copying view's button
\* once completed: outside that stage the handler returns at once; in it,
\* the files are listed and hash_dirs is launched, or the listing fails
StartChecksum ==
  IF stage = "Copying" /\ completed
  THEN \/ /\ chan' = NewChannel
          /\ stage' = "Checksumming"
          /\ gui_progress' = ProgressDefault
          /\ hpc' = "flatten"
          /\ UNCHANGED <<fsVars, pc, dirVars, fileVars, copy_msg, completed,
                         error_message, total_bytes_copied, inputVars,
                         hfiles, hash_idx, hash_futures, hash_values, report,
                         checksum_msg, histVars>>
       \/ /\ error_message' = InputErr("list_files")
          /\ UNCHANGED <<fsVars, pc, dirVars, fileVars, chanVars, stage,
                         gui_progress, completed, total_bytes_copied,
                         inputVars, hashVars, histVars>>
  ELSE UNCHANGED vars

\* update(ChecksumCompleted(result)), lines 224-235
ChecksumCompleted ==
  /\ checksum_msg.kind # "none"
  /\ checksum_msg' = None
  /\ IF checksum_msg.kind = "ok"
     THEN /\ stage' = "ChecksumComplete"
          /\ UNCHANGED error_message
     ELSE /\ stage' = "Input"
          /\ error_message' = checksum_msg.err
  /\ chan' = [chan EXCEPT !.receivers = 0]
  /\ UNCHANGED <<fsVars, pc, dirVars, fileVars, copy_msg, gui_progress,
                 completed, total_bytes_copied, inputVars, hpc, hfiles,
                 hash_idx, hash_futures, hash_values, report, histVars>>

\* ------------------------------------------------------------ hash_dirs
\* the digest of a byte sequence: the hasher fed the bytes in order (the
\* chunks compute_file_hash feeds it are the file's bytes in order)
RECURSIVE HashFrom(_, _)
HashFrom(h, data) ==
  IF data = <<>> THEN h
  ELSE HashFrom((h * 3 + Head(data) + 1) % 65536, Tail(data))

\* lines 239-263: the digest compute_file_hash returns for a readable file
compute_file_hash(data) == HashFrom(0, data)

Path(root, file) == [root |-> root, file |-> file]

\* replica k of the file being hashed: 0 is the source, j >= 1 destination j
Replica(k) ==
  IF k = 0 THEN [exists |-> TRUE, data |-> source[hfiles[hash_idx]]]
  ELSE dest[k][hfiles[hash_idx]]

HashReturn(r) ==
  /\ checksum_msg' = r
  /\ hpc' = "returned"

\* lines 203-204
HashFlatten ==
  /\ hpc = "flatten"
  /\ \/ /\ hfiles' = [i \in 1..Len(source) |-> i]
        /\ report' = <<>>
        /\ hash_idx' = 1
        /\ hpc' = "loop"
        /\ UNCHANGED checksum_msg
     \/ /\ HashReturn(Err("read_dir", 0))
        /\ UNCHANGED <<hfiles, report, hash_idx>>
  /\ UNCHANGED <<fsVars, pc, dirVars, fileVars, chanVars, guiVars,
                 hash_futures, hash_values, histVars>>

\* lines 206-218: the futures of the next file, one for the source and one
\* per destination path, handed to join!
HashLaunch ==
  /\ hpc = "loop"
  /\ hash_idx <= Len(hfiles)
  /\ hash_futures' = [k \in 0..ndest |-> "pending"]
  /\ hash_values' = [k \in 0..ndest |-> 0]
  /\ hpc' = "join"
  /\ UNCHANGED <<fsVars, pc, dirVars, fileVars, chanVars, guiVars, hfiles,
                 hash_idx, report, checksum_msg, histVars>>

\* compute_file_hash of replica k runs to its end: the digest, or the error
\* of File::open (always, for a file that is not there) or of a read
HashComplete(k) ==
  /\ hpc = "join"
  /\ hash_futures[k] = "pending"
  /\ \/ /\ Replica(k).exists
        /\ hash_futures' = [hash_futures EXCEPT ![k] = "ok"]
        /\ hash_values' = [hash_values EXCEPT ![k] =
                             compute_file_hash(Replica(k).data)]
     \/ /\ hash_futures' = [hash_futures EXCEPT ![k] = "err"]
        /\ UNCHANGED hash_values
  /\ UNCHANGED <<fsVars, pc, dirVars, fileVars, chanVars, guiVars, hpc,
                 hfiles, hash_idx, report, checksum_msg, histVars>>

\* mutant of HashJoined: only the source's hash is awaited
HashJoinedSourceOnly == hash_futures[0] \in {"ok", "err"}

\* line 218: join! has the result of the source's hash and of every
\* destination's
HashJoined == \A k \in 0..ndest : hash_futures[k] \in {"ok", "err"}

FirstHashErr == CHOOSE j \in 1..ndest :
                  /\ hash_futures[j] = "err"
                  /\ \A k \in 1..(j - 1) : hash_futures[k] # "err"

\* mutant of Record: the join's results are zipped in reverse
RecordReversed(file, hv) ==
  [source_hash |-> [path |-> Path(0, file), hash |-> hv[0]],
   destination_hash |->
     [j \in 1..ndest |-> [path |-> Path(j, file),
                          hash |-> hv[ndest + 1 - j]]]]

\* lines 220-234: the record of a file whose digests are hv (hv[0] the
\* source's, hv[j] destination j's): the destination entries are built by
\* zipping the destination paths with the join's results, in path order
Record(file, hv) ==
  [source_hash |-> [path |-> Path(0, file), hash |-> hv[0]],
   destination_hash |->
     [j \in 1..ndest |-> [path |-> Path(j, file), hash |-> hv[j]]]]

\* mutant of HashAfterJoin: a failed source hash becomes the default digest
HashAfterJoinDefault ==
  /\ hpc = "join"
  /\ HashJoined
  /\ IF \E j \in 1..ndest : hash_futures[j] = "err"
     THEN /\ HashReturn(Err("hash", FirstHashErr))
          /\ UNCHANGED <<report, hash_idx>>
     ELSE /\ report' = Append(report, Record(hfiles[hash_idx], hash_values))
          /\ hash_idx' = hash_idx + 1
          /\ hpc' = "loop"
          /\ UNCHANGED checksum_msg
  /\ UNCHANGED <<fsVars, pc, dirVars, fileVars, chanVars, guiVars, hfiles,
                 hash_futures, hash_values, histVars>>

\* lines 218-234: after the join, the destination results in order, then
\* the source result, then the record
HashAfterJoin ==
  /\ hpc = "join"
  /\ HashJoined
  /\ IF \E j \in 1..ndest : hash_futures[j] = "err"
     THEN /\ HashReturn(Err("hash", FirstHashErr))
          /\ UNCHANGED <<report, hash_idx>>
     ELSE IF hash_futures[0] = "err"
     THEN /\ HashReturn(Err("hash", 0))
          /\ UNCHANGED <<report, hash_idx>>
     ELSE /\ report' = Append(report, Record(hfiles[hash_idx], hash_values))
          /\ hash_idx' = hash_idx + 1
          /\ hpc' = "loop"
          /\ UNCHANGED checksum_msg
  /\ UNCHANGED <<fsVars, pc, dirVars, fileVars, chanVars, guiVars, hfiles,
                 hash_futures, hash_values, histVars>>

\* mutant of HashDirsOk: the report is returned from inside the loop
HashDirsOkEarly ==
  /\ hpc = "loop"
  /\ HashReturn(Ok(0))
  /\ UNCHANGED <<fsVars, pc, dirVars, fileVars, chanVars, guiVars, hfiles,
                 hash_idx, hash_futures, hash_values, report, histVars>>

\* line 236: Ok(ChecksumReport(report))
HashDirsOk ==
  /\ hpc = "loop"
  /\ hash_idx > Len(hfiles)
  /\ HashReturn(Ok(0))
  /\ UNCHANGED <<fsVars, pc, dirVars, fileVars, chanVars, guiVars, hfiles,
                 hash_idx, hash_futures, hash_values, report, histVars>>

\* lines 184-186
total_files(rep) == Len(rep)

\* mutant of count_errors: counts every differing destination
count_errors_per_destination(rep) ==
  Sum([r \in 1..Len(rep) |->
         Cardinality({d \in 1..Len(rep[r].destination_hash) :
                        rep[r].source_hash.hash #
                          rep[r].destination_hash[d].hash})])

\* lines 188-199
count_errors(rep) ==
  Cardinality({r \in 1..Len(rep) :
                 \E d \in 1..Len(rep[r].destination_hash) :
                   rep[r].source_hash.hash # rep[r].destination_hash[d].hash})

\* ----------------------------------------------------------------- Spec
\* One copy-then-verify operation, the messages of the buttons sent when the
\* view offers the button: what an earlier operation left in the
\* destinations is the stale files of Init.
Next ==
  \/ pc = "idle" /\ StartCopy
  \/ Tick
  \/ CopyCompleted
  \/ DismissError
  \/ (stage = "Copying" /\ completed) /\ StartChecksum
  \/ ChecksumCompleted
  \/ Flatten
  \/ CreateDirs
  \/ OpenSource
  \/ CreateDest
  \/ FirstRead
  \/ SwapAndIssue
  \/ \E j \in 1..ndest : WriteComplete(j)
  \/ ReadComplete
  \/ AfterJoin
  \/ Flush
  \/ ReturnTotal
  \/ FileDone
  \/ SendProgress
  \/ CopyDirsOk
  \/ HashFlatten
  \/ HashLaunch
  \/ \E k \in 0..ndest : HashComplete(k)
  \/ HashAfterJoin
  \/ HashDirsOk

Spec == Init /\ [][Next]_vars

\* ------------------------------------------------- ChecksumReport alone
\* A report as hash_dirs builds it, record by record, over files whose
\* digests are arbitrary; hash_dirs takes any vector of destination roots,
\* the empty one included.
Digests == {compute_file_hash(c) : c \in Contents(1)}

ReportInit ==
  /\ source = <<>>
  /\ ndest \in 0..MaxDests
  /\ dest = [j \in 1..ndest |-> <<>>]
  /\ report = <<>> /\ hpc = "idle"
  /\ Selected
  /\ Idle

\* lines 231-234: report.push of the record of the next file
PushRecord ==
  /\ Len(report) < MaxFiles
  /\ \E hv \in [0..ndest -> Digests] :
       report' = Append(report, Record(Len(report) + 1, hv))
  /\ UNCHANGED <<fsVars, pc, dirVars, fileVars, chanVars, guiVars, hpc,
                 hfiles, hash_idx, hash_futures, hash_values, checksum_msg,
                 histVars>>

ReportNext == PushRecord

SpecReport == ReportInit /\ [][ReportNext]_vars

\* ------------------------------------------------------ hash_dirs alone
\* hash_dirs called on a source tree and destination roots of which some
\* hold every file with the source's bytes and the others hold every file
\* with other bytes
VerifyInit ==
  /\ source \in Trees(MaxFiles, MaxTreeBytes)
  /\ ndest \in 1..MaxDests
  /\ \E other \in SUBSET (1..ndest) :
       dest = [j \in 1..ndest |->
                 [i \in 1..Len(source) |->
                    [exists |-> TRUE,
                     data |-> IF j \in other THEN Stale ELSE source[i]]]]
  /\ report = <<>> /\ hpc = "flatten"
  /\ Selected
  /\ Idle

VerifyNext ==
  \/ HashFlatten
  \/ HashLaunch
  \/ \E k \in 0..ndest : HashComplete(k)
  \/ HashAfterJoin
  \/ HashDirsOk

SpecVerify == VerifyInit /\ [][VerifyNext]_vars


\* ------------------------------------------------ the stage machine
\* The GUI from its first state, every selection made through the dialogs,
\* over an empty source tree: a copy and a verification are then the
\* listing of the tree, which may fail, and the return.  An operation can
\* be started again after one that failed.
StageInit ==
  /\ source = <<>>
  /\ ndest = 0
  /\ dest = [j \in 1..MaxDests |-> <<>>]
  /\ source_directory = FALSE
  /\ destination_directories = <<>>
  /\ report = <<>> /\ hpc = "idle"
  /\ Idle

\* update(OpenSourceDirectoryDialog), lines 90-94: pick_folder() gives a
\* directory, or nothing when the dialog is cancelled
OpenSourceDirectoryDialog ==
  /\ stage = "Input"
  /\ source_directory' \in BOOLEAN
  /\ UNCHANGED <<fsVars, pc, dirVars, fileVars, chanVars, stage, gui_progress,
                 completed, error_message, total_bytes_copied,
                 destination_directories, hashVars, histVars>>

\* update(OpenDestinationDirectoryDialog(index)), lines 96-101
OpenDestinationDirectoryDialog(index) ==
  /\ stage = "Input"
  /\ IF index <= Len(destination_directories)
     THEN \E picked \in BOOLEAN :
            destination_directories' =
              [destination_directories EXCEPT ![index] = picked]
     ELSE UNCHANGED destination_directories
  /\ UNCHANGED <<fsVars, pc, dirVars, fileVars, chanVars, stage, gui_progress,
                 completed, error_message, total_bytes_copied,
                 source_directory, hashVars, histVars>>

\* update(AddDestinationDirectory), lines 103-106
AddDestinationDirectory ==
  /\ stage = "Input"
  /\ Len(destination_directories) < MaxDests
  /\ destination_directories' = Append(destination_directories, FALSE)
  /\ UNCHANGED <<fsVars, pc, dirVars, fileVars, chanVars, stage, gui_progress,
                 completed, error_message, total_bytes_copied,
                 source_directory, hashVars, histVars>>

\* update(RemoveDestinationDirectory(index)), lines 108-113, sent by the
\* button of entry index
RemoveDestinationDirectory(index) ==
  /\ stage = "Input"
  /\ index <= Len(destination_directories)
  /\ destination_directories' =
       IF Len(destination_directories) > 1
       THEN [i \in 1..(Len(destination_directories) - 1) |->
               IF i < index THEN destination_directories[i]
               ELSE destination_directories[i + 1]]
       ELSE destination_directories
  /\ UNCHANGED <<fsVars, pc, dirVars, fileVars, chanVars, stage, gui_progress,
                 completed, error_message, total_bytes_copied,
                 source_directory, hashVars, histVars>>

StageNext ==
  \/ OpenSourceDirectoryDialog
  \/ \E index \in 1..MaxDests : OpenDestinationDirectoryDialog(index)
  \/ AddDestinationDirectory
  \/ \E index \in 1..MaxDests : RemoveDestinationDirectory(index)
  \/ StartCopy
  \/ CopyCompleted
  \/ DismissError
  \/ StartChecksum
  \/ ChecksumCompleted
  \/ Flatten
  \/ CopyDirsOk
  \/ HashFlatten
  \/ HashDirsOk

SpecStage == StageInit /\ [][StageNext]_vars

\* ------------------------------------------------ copy_dirs and a caller
\* copy_dirs called by a caller that keeps the Receiver of the channel whose
\* Sender it passes, and may drop it at any time while the copy runs
CallCopyDirs ==
  /\ pc = "idle"
  /\ chan' = NewChannel
  /\ pc' = "flatten"
  /\ sent' = <<>>
  /\ UNCHANGED <<fsVars, dirVars, fileVars, copy_msg, guiVars, hashVars,
                 reads, nwrites, landed, filled>>

DropReceiver ==
  /\ pc \notin {"idle", "returned", "panicked"}
  /\ chan.receivers > 0
  /\ chan' = [chan EXCEPT !.receivers = 0]
  /\ UNCHANGED <<fsVars, pc, dirVars, fileVars, copy_msg, guiVars, hashVars,
                 histVars>>

CallerNext ==
  \/ CallCopyDirs
  \/ DropReceiver
  \/ Flatten
  \/ CreateDirs
  \/ OpenSource
  \/ CreateDest
  \/ FirstRead
  \/ SwapAndIssue
  \/ \E j \in 1..ndest : WriteComplete(j)
  \/ ReadComplete
  \/ AfterJoin
  \/ Flush
  \/ ReturnTotal
  \/ FileDone
  \/ SendProgress
  \/ CopyDirsOk

SpecCaller == Init /\ [][CallerNext]_vars

\* =============================================================== claims
\* read_file_copy_batch has just returned Ok for the current file
FileCopiedOk == pc = "file_return" /\ file_result.kind = "ok"

\* C1: when read_file_copy_batch returns Ok, every destination file holds
\* exactly the bytes of the source file.
C1_RoundTripFidelity ==
  FileCopiedOk =>
    \A j \in 1..ndest : dest[j][file_idx].data = source[file_idx]

\* C2: when read_file_copy_batch returns Ok(n), n is the sum of the sizes of
\* all non-empty reads, the first one included, and so the source's size.
C2_TotalIsSumOfReads ==
  FileCopiedOk =>
    /\ file_result.val = Sum(reads)
    /\ file_result.val = Len(source[file_idx])

\* C3: the Progress published after the k-th file was copied has
\* completed = k (and total = the number of files), so the last one published
\* by a run that returns Ok over n >= 1 files is {total: n, completed: n}.
C3_ProgressCountsFiles ==
  \A k \in 1..Len(sent) :
    sent[k] = [total |-> Len(source), completed |-> k]


\* what an observer of the copy's channel can read: the value in the channel
\* and the value the Copying stage took from it
ProgressInBounds ==
  stage = "Copying" =>
    /\ chan.value.completed <= chan.value.total
    /\ gui_progress.completed <= gui_progress.total

ProgressStep ==
  (stage = "Copying" /\ stage' = "Copying") =>
    /\ chan'.value.completed >= chan.value.completed
    /\ gui_progress'.completed >= gui_progress.completed

\* C4: every Progress an observer can read during a copy_dirs run, the
\* initial value of the channel included, has completed <= total, and the
\* completed values of successive polls never decrease.
C4_ProgressBoundedMonotone == []ProgressInBounds /\ [][ProgressStep]_vars

\* the GUI has polled a value published after several files
C4_Witness ==
  /\ stage = "Copying"
  /\ Len(sent) >= 2
  /\ gui_progress = chan.value
  /\ gui_progress.completed >= 1


\* C5: hash_dirs run after copy_dirs returned Ok, on the same trees and
\* without an I/O error, reports no inconsistent record.
C5_VerifyAfterCopyIsClean ==
  (hpc = "returned" /\ checksum_msg.kind = "ok") => count_errors(report) = 0

TreeBytes == Sum([i \in 1..Len(source) |-> Len(source[i])])

\* C6: when copy_dirs returns Ok(b), b is the sum of the sizes of the files
\* of the source tree, whatever the number of destinations.
C6_CopyDirsTotalIsTreeSize ==
  (pc = "returned" /\ copy_msg.kind = "ok") => copy_msg.val = TreeBytes

\* C7: read_file_copy_batch on an empty source issues no write; it returns
\* Ok(0) unless the open, a create or the read fails; and once the source is
\* open and every destination created, every destination is there and empty.
C7_EmptySourceCopy ==
  (pc = "file_return" /\ source[file_idx] = <<>>) =>
    /\ nwrites = 0
    /\ file_result.kind = "ok" => file_result.val = 0
    /\ file_result.kind = "err" =>
         file_result.err.op \in {"open", "create", "read"}
    /\ file_result.err.op \notin {"open", "create"} =>
         \A j \in 1..ndest :
           dest[j][file_idx] = [exists |-> TRUE, data |-> <<>>]

\* Ok(0) for an empty first file of two; the second file's destinations
\* show that root 1 held stale files (truncated) and root 2 none (created)
C7_Witness ==
  /\ pc = "file_return" /\ source[file_idx] = <<>>
  /\ file_result = Ok(0)
  /\ ndest = 2
  /\ Len(source) = 2 /\ file_idx = 1
  /\ dest[1][2] = [exists |-> TRUE, data |-> Stale]
  /\ ~dest[2][2].exists

\* a future of the current iteration failed
AnyFailed ==
  \/ read_future = "err"
  \/ \E j \in 1..ndest : write_futures[j] = "err"

FailedMidCopy ==
  /\ pc = "file_return" /\ file_result.kind = "err"
  /\ file_result.err.op \in {"write", "read"}

AbortedCleanly ==
  FailedMidCopy =>
    /\ read_future # "pending"
    /\ \A j \in 1..ndest : write_futures[j] # "pending"
    /\ file_result.err.op = "write" =>
         write_futures[file_result.err.who] = "err"
    /\ file_result.err.op = "read" => (read_future = "err" \/ nwrites = 0)
    /\ \A j \in 1..ndest :
         /\ dest[j][file_idx].exists
         /\ dest[j][file_idx].data = landed[j]

AbortStep ==
  (pc = "join" /\ Joined /\ AnyFailed) =>
    /\ nwrites' = nwrites
    /\ dest' = dest
    /\ \/ pc' = "join" /\ file_result' = file_result
       \/ /\ pc' = "file_return"
          /\ file_result'.kind = "err"
          /\ file_result'.err.op \in {"write", "read"}

\* C8: when a chunk's write to a destination or the source read fails,
\* read_file_copy_batch returns Err once the read and the writes issued in
\* that iteration have all finished; it issues no write of a later chunk,
\* returns one error, and truncates or removes no destination.
C8_AbortOnIoFailure == []AbortedCleanly /\ [][AbortStep]_vars

\* a write failed while the other destination's write and the read of the
\* next chunk succeeded
C8_Witness ==
  /\ FailedMidCopy
  /\ file_result.err.op = "write"
  /\ ndest = 2
  /\ \E j \in 1..ndest : write_futures[j] = "ok"
  /\ read_future = "ok" /\ read_n > 0

FileOps == {"open", "create", "read", "write", "flush"}

FailedFileEndsRun ==
  (pc = "returned" /\ copy_msg.kind = "err" /\ copy_msg.err.op \in FileOps) =>
    /\ copy_msg = file_result
    /\ Len(sent) = file_idx - 1

FailedFileStep ==
  (pc = "file_return" /\ file_result.kind = "err") =>
    /\ dest' = dest /\ sent' = sent
    /\ \/ pc' = pc
       \/ pc' = "returned" /\ copy_msg' = file_result

OnlyCurrentFileStep ==
  \A j \in 1..ndest : \A k \in 1..Len(source) :
    dest'[j][k] # dest[j][k] => (k = file_idx /\ pc \in {"create", "join"})

\* C9: when the copy of the i-th file fails, copy_dirs returns that error
\* at once: no later file is opened, created or written, no Progress is
\* published for the i-th file, and the copies of earlier files stay as
\* written.
C9_FirstFailureEndsCopy ==
  []FailedFileEndsRun /\ [][FailedFileStep /\ OnlyCurrentFileStep]_vars

\* the second file failed after the first was copied and published
C9_Witness ==
  /\ pc = "returned" /\ copy_msg.kind = "err"
  /\ copy_msg.err.op = "write"
  /\ file_idx = 2 /\ Len(sent) = 1

HashFailedEndsRun ==
  (hpc = "returned" /\ checksum_msg.kind = "err"
     /\ checksum_msg.err.op = "hash") =>
    /\ hash_futures[checksum_msg.err.who] = "err"
    /\ Len(report) = hash_idx - 1

HashFailedStep ==
  (hpc = "join" /\ HashJoined /\ \E k \in 0..ndest : hash_futures[k] = "err")
    => /\ report' = report
       /\ \/ hpc' = "join" /\ checksum_msg' = checksum_msg
          \/ /\ hpc' = "returned"
             /\ checksum_msg'.kind = "err"
             /\ checksum_msg'.err.op = "hash"
             /\ hash_futures[checksum_msg'.err.who] = "err"

\* C10: when the hash computation of the source or of a destination fails
\* for a file, hash_dirs returns that error, appends no record for that file
\* or a later one, and returns no report.
C10_HashFailureEndsVerify ==
  []HashFailedEndsRun /\ [][HashFailedStep]_vars

\* the source's hash failed for the second file, every destination's worked
C10_Witness ==
  /\ hpc = "returned"
  /\ checksum_msg = Err("hash", 0)
  /\ Len(report) = 1
  /\ \A j \in 1..ndest : hash_futures[j] = "ok"


\* the destinations of a record whose digest is not the source's
Differing(rec) ==
  {d \in DOMAIN rec.destination_hash :
     rec.destination_hash[d].hash # rec.source_hash.hash}

\* the inconsistent records of a report, counted one record at a time
RECURSIVE Inconsistent(_)
Inconsistent(rep) ==
  IF rep = <<>> THEN 0
  ELSE (IF Differing(Head(rep)) = {} THEN 0 ELSE 1) + Inconsistent(Tail(rep))

\* C11: count_errors() is the number of records with at least one
\* destination digest different from the record's source digest: a record
\* with several differing destinations counts once, a record without
\* destinations counts as consistent.
C11_CountErrorsCountsRecords ==
  /\ count_errors(report) = Inconsistent(report)
  /\ count_errors(report) <= total_files(report)
  /\ ndest = 0 => count_errors(report) = 0

\* a report with a record whose two destinations both differ, and a clean one
C11_Witness ==
  /\ Len(report) = 2
  /\ Cardinality(Differing(report[1])) = 2
  /\ Differing(report[2]) = {}
  /\ count_errors(report) = 1


HashDirsReturnedOk == hpc = "returned" /\ checksum_msg.kind = "ok"

\* C12: when hash_dirs returns Ok(report), the report has one record per
\* enumerated file, in enumeration order: total_files() is the number of
\* files and the i-th record's source path is the source root joined with
\* the i-th relative path.
C12_OneRecordPerFile ==
  /\ hpc \in {"loop", "join"} => total_files(report) = hash_idx - 1
  /\ HashDirsReturnedOk =>
       /\ total_files(report) = Len(hfiles)
       /\ Len(hfiles) = Len(source)
  /\ \A i \in 1..Len(report) :
       report[i].source_hash.path = Path(0, hfiles[i])

\* hash_dirs returned the report of a tree of two files
C12_Witness == HashDirsReturnedOk /\ total_files(report) = 2

\* C13: in every record the destination list has one entry per destination
\* root passed to hash_dirs, and its j-th entry holds the path and the
\* digest of the file under the j-th root, in whatever order the concurrent
\* hash computations finish.
C13_DestinationsInRootOrder ==
  /\ \A r \in 1..Len(report) :
       /\ Len(report[r].destination_hash) = ndest
       /\ \A j \in 1..ndest :
            /\ report[r].destination_hash[j].path = Path(j, hfiles[r])
            /\ report[r].destination_hash[j].hash =
                 compute_file_hash(dest[j][hfiles[r]].data)
  /\ hpc = "join" =>
       \A k \in 0..ndest :
         hash_futures[k] = "ok" =>
           hash_values[k] = compute_file_hash(Replica(k).data)

\* the second file's hash of destination 2 finished before the one of
\* destination 1, after a record whose two destinations differ was appended
C13_Witness ==
  /\ ndest = 2 /\ hpc = "join" /\ Len(report) = 1
  /\ report[1].destination_hash[1].hash # report[1].destination_hash[2].hash
  /\ hash_futures[2] = "ok" /\ hash_futures[1] = "pending"
  /\ hash_values[2] # compute_file_hash(dest[1][hfiles[hash_idx]].data)


\* C14: during verification, after each record is appended to the report
\* hash_dirs advances Progress.completed by one and publishes it on the
\* progress channel of the Checksumming stage, so that the value in the
\* channel counts the records and, on success, the files.
C14_VerifyPublishesProgress ==
  /\ (stage = "Checksumming" /\ hpc \in {"loop", "join", "returned"}) =>
       chan.value.completed = total_files(report)
  /\ (stage = "Checksumming" /\ HashDirsReturnedOk) =>
       chan.value = [total |-> Len(hfiles), completed |-> Len(hfiles)]


\* the channel of the running copy holds the last value copy_dirs published,
\* and while the Sender lives a poll finds it changed and takes it
LatestInChannel ==
  (stage = "Copying" /\ sent # <<>>) =>
    /\ chan.value = sent[Len(sent)]
    /\ chan.version = Len(sent)
    /\ ~chan.closed => HasChanged = "true"

\* a poll that takes a value takes the last one published, and what was
\* published stays published: the value a later poll takes is not older
PollStep ==
  (stage = "Copying" /\ stage' = "Copying") =>
    /\ gui_progress' # gui_progress =>
         /\ sent # <<>>
         /\ gui_progress' = sent[Len(sent)]
         /\ UNCHANGED sent
    /\ Len(sent') >= Len(sent)
    /\ SubSeq(sent', 1, Len(sent)) = sent
    /\ chan'.version >= chan.version

Issued ==
  /\ pc = "join"
  /\ read_future = "pending"
  /\ \A j \in 1..ndest : write_futures[j] = "pending"

\* the chunk the most recent read returned
LastChunk == SubSeq(source[file_idx], pos - bytes_read + 1, pos)

\* C16: in every iteration of the copy loop, the first included, the bytes
\* handed to the writes are the chunk the most recent read filled (the
\* buffer just filled is the write buffer) and the concurrent read goes to
\* the other buffer; so every non-empty chunk read is written once to every
\* destination, in read order.
C16_WritesTheChunkJustRead ==
  /\ Issued =>
       /\ write_buffer = filled
       /\ read_buffer # filled
       /\ SubSeq(Buf(write_buffer), 1, bytes_read) = LastChunk
  /\ FileCopiedOk =>
       \A j \in 1..ndest : landed[j] = source[file_idx]

\* C17: no read fills a buffer while a write from that buffer is in flight:
\* within an iteration the read buffer and the write buffer are different
\* buffers, and the read of chunk N+1 never goes into the buffer that holds
\* chunk N before chunk N was written to every destination (chunk N, the
\* last one read, has no write behind it when the read of N+1 is issued).
C17_NoReadIntoUnwrittenChunk ==
  pc = "join" =>
    /\ read_buffer # write_buffer
    /\ read_future = "pending" => read_buffer # filled


\* the read and the write to every destination have completed or failed
AllSettled ==
  /\ read_future \in {"ok", "err"}
  /\ \A j \in 1..ndest : write_futures[j] \in {"ok", "err"}

NoneInFlight ==
  /\ read_future # "pending"
  /\ \A j \in 1..ndest : write_futures[j] # "pending"

\* the loop goes past the join (to the swap of the next iteration, to the
\* flushes or to a return) only once everything the iteration issued is
\* settled, and an iteration issues its futures with none left in flight
BarrierStep ==
  /\ (pc = "join" /\ pc' # "join") => AllSettled
  /\ (pc = "swap" /\ pc' = "join") =>
       /\ NoneInFlight
       /\ read_future' = "pending"
       /\ \A j \in 1..ndest : write_futures'[j] = "pending"
  /\ (pc = "join" /\ pc' = "join") =>
       /\ UNCHANGED <<read_buffer, write_buffer, bytes_read, nwrites>>

\* C18: every iteration of the copy loop is a full barrier: the loop does
\* not swap the buffers, nor issue the next read or the next writes, until
\* the current read and the current write to every destination have all
\* completed or failed.
C18_IterationIsBarrier ==
  [](pc \in {"swap", "flush"} => NoneInFlight) /\ [][BarrierStep]_vars

\* the loop is about to start its second iteration, with two destinations
C18_Witness ==
  /\ pc = "swap" /\ ndest = 2 /\ nwrites = 2
  /\ AllSettled


\* Ok after the loop means every destination was flushed; a flush error
\* names the first destination whose flush failed, the ones before it
\* having been flushed
FlushedBeforeReturn ==
  /\ (FileCopiedOk /\ reads # <<>>) => flushed = ndest
  /\ (pc = "file_return" /\ file_result.err.op = "flush") =>
       /\ file_result.kind = "err"
       /\ flushed = file_result.err.who - 1

\* the flushes go through the destinations one by one, in their order, and
\* the flushing ends with Ok after the last one or with the error of the
\* one that failed
FlushStep ==
  /\ (pc = "flush" /\ pc' = "flush") => flushed' \in {flushed, flushed + 1}
  /\ (pc = "flush" /\ pc' # "flush") =>
       \/ flushed = ndest /\ file_result' = Ok(total_bytes)
       \/ flushed < ndest /\ file_result' = Err("flush", flushed + 1)

\* C19: when the copy loop ends at end of file every destination is
\* flushed, in destination order, before Ok is returned; if a flush fails
\* the function returns that error and not Ok.
C19_FlushAllBeforeOk == []FlushedBeforeReturn /\ [][FlushStep]_vars

\* the flush of the second destination failed after the first one's went
\* through
C19_Witness ==
  /\ pc = "file_return" /\ ndest = 2
  /\ file_result = Err("flush", 2)
  /\ flushed = 1


\* the hash computations in flight
HashInFlight == {k \in 0..ndest : hash_futures[k] = "pending"}

\* between two files, and once hash_dirs has returned, nothing is in flight
OneFileAtATime ==
  /\ Cardinality(HashInFlight) <= 1 + ndest
  /\ hpc \in {"loop", "returned"} => HashInFlight = {}
  /\ hpc \in {"loop", "join"} => hash_idx = Len(report) + 1

\* the 1+N computations of a file start together, with none of the file
\* before in flight; the record is appended, and the next file taken, only
\* once all of them are done, and the files are taken in enumeration order
HashStep ==
  /\ (hpc = "loop" /\ hpc' = "join") =>
       /\ HashInFlight = {}
       /\ \A k \in 0..ndest : hash_futures'[k] = "pending"
       /\ UNCHANGED <<hash_idx, report>>
  /\ report' # report =>
       /\ HashInFlight = {}
       /\ \A k \in 0..ndest : hash_futures[k] = "ok"
       /\ Len(report') = Len(report) + 1
       /\ report'[Len(report')].source_hash.path = Path(0, hfiles[hash_idx])
       /\ hash_idx' = hash_idx + 1
  /\ (hpc = "join" /\ hpc' # "join") => HashInFlight = {}

\* C20: hash_dirs takes the files one at a time, in enumeration order: the
\* 1+N hash computations of a file run concurrently and are all joined
\* before the file's record is appended and before any computation of the
\* next file starts, so at most 1+N computations are in flight.
C20_HashOneFileAtATime == []OneFileAtATime /\ [][HashStep]_vars

\* the second file's computations are all in flight, for two destinations
C20_Witness ==
  /\ ndest = 2 /\ hpc = "join" /\ hash_idx = 2
  /\ Cardinality(HashInFlight) = 3


\* C21: the front-end does not miss the final progress value: once the GUI
\* has processed CopyCompleted(Ok), the progress the Copying stage holds is
\* the last Progress copy_dirs published, whatever the interleaving of the
\* Ticks, the sends and the CopyCompleted message.
C21_FinalProgressShown ==
  (stage = "Copying" /\ completed /\ sent # <<>>) =>
    gui_progress = sent[Len(sent)]


\* the stage changes to Checksumming, and the verification task is
\* launched, only in a step from Copying with completed = true; completed
\* becomes true only when CopyCompleted(Ok) is processed, and the stage
\* becomes ChecksumComplete only from Checksumming
ChecksumStartStep ==
  /\ (stage' = "Checksumming" /\ stage # "Checksumming") =>
       (stage = "Copying" /\ completed /\ hpc' = "flatten")
  /\ (hpc' = "flatten" /\ hpc # "flatten") =>
       (stage = "Copying" /\ completed /\ stage' = "Checksumming")
  /\ (StartChecksum /\ ~(stage = "Copying" /\ completed)) => UNCHANGED vars
  /\ (completed' /\ ~completed) =>
       (stage = "Copying" /\ copy_msg.kind = "ok" /\ copy_msg' = None)
  /\ (stage' = "ChecksumComplete" /\ stage # "ChecksumComplete") =>
       (stage = "Checksumming" /\ checksum_msg.kind = "ok")

\* C22: verification starts only after a successful copy: StartChecksum
\* changes the stage to Checksumming only from Copying with completed =
\* true, in any other stage it changes nothing and launches no task; so
\* Checksumming and ChecksumComplete are reached only after CopyCompleted(Ok)
\* was processed.
C22_VerifyOnlyAfterCopy ==
  /\ [](stage \in {"Checksumming", "ChecksumComplete"} => completed)
  /\ [][ChecksumStartStep]_vars

\* StartChecksum has just launched the verification of a completed copy
C22_Witness ==
  /\ stage = "Checksumming" /\ hpc = "flatten"
  /\ completed /\ total_bytes_copied = 0


InvalidInput == ~source_directory \/ valid_destinations = {}

\* with no source or no destination selected no step leaves the Input
\* stage, makes a channel or launches a task, and StartCopy records an
\* error and leaves the selections as they are
InvalidStartStep ==
  (stage = "Input" /\ InvalidInput) =>
    /\ stage' = "Input" /\ chan' = chan /\ pc' = pc /\ ndest' = ndest
    /\ StartCopy =>
         /\ error_message' = IF ~source_directory
                              THEN InputErr("no_source")
                              ELSE InputErr("no_destination")
         /\ UNCHANGED inputVars

\* C23: StartCopy with no source directory selected, or with no
\* destination entry holding a directory, sets error_message, leaves the
\* stage and the selections unchanged, creates no progress channel and
\* launches no copy task.
C23_StartCopyValidates ==
  /\ [](pc # "idle" => ndest >= 1)
  /\ [][InvalidStartStep]_vars

\* StartCopy was refused for a source with two entries, none selected
C23_Witness ==
  /\ stage = "Input" /\ pc = "idle"
  /\ source_directory
  /\ destination_directories = <<FALSE, FALSE>>
  /\ error_message = InputErr("no_destination")


\* a failure message is processed by going back to Input with its error,
\* the selections kept (and still valid for StartCopy); an error that is
\* shown goes away only by DismissError
FailureStep ==
  /\ (copy_msg.kind = "err" /\ copy_msg' = None) =>
       /\ stage' = "Input" /\ error_message' = copy_msg.err
       /\ UNCHANGED inputVars
       /\ ~InvalidInput
  /\ (checksum_msg.kind = "err" /\ checksum_msg' = None) =>
       /\ stage' = "Input" /\ error_message' = checksum_msg.err
       /\ UNCHANGED inputVars
       /\ ~InvalidInput
  /\ (error_message # NoErr /\ error_message' = NoErr) => DismissError

\* C24: when a phase fails the GUI returns to the Input stage with the
\* error recorded: CopyCompleted(Err(e)) and ChecksumCompleted(Err(e)) set
\* the stage to Input and error_message to e and keep the selected
\* directories; the error stays until DismissError; StartCopy can start the
\* operation again.
C24_FailureReturnsToInput ==
  /\ [](pc = "idle" => copy_msg.kind = "none")
  /\ [][FailureStep]_vars

\* a failed verification is still shown while the copy started again runs
C24_Witness ==
  /\ stage = "Copying" /\ pc = "flatten"
  /\ hpc = "returned"
  /\ error_message = Err("read_dir", 0).err


\* C25: a caller may drop every observer of the progress channel while
\* copy_dirs runs without disturbing the copy: publishing a Progress never
\* fails or aborts the operation, which goes on with the remaining files
\* and returns its result.
C25_DropObserversHarmless ==
  /\ pc # "panicked"
  /\ (chan.receivers = 0 /\ pc = "returned" /\ copy_msg.kind = "ok") =>
       Len(sent) = Len(source)


\* a destination file as it was before the call: not there, or left by an
\* earlier run
Untouched(f) == f = NoFile \/ f = [exists |-> TRUE, data |-> Stale]

\* a destination file just created or truncated
Truncated(f) == f = [exists |-> TRUE, data |-> <<>>]

NothingMoved ==
  /\ pos = 0 /\ reads = <<>> /\ nwrites = 0
  /\ \A j \in 1..ndest : landed[j] = <<>>

\* C26: read_file_copy_batch opens the source before it creates any
\* destination: when the open fails it returns that error with no
\* destination created or truncated; when the creation of destination k
\* fails, the destinations before k are created or truncated, those after
\* k are untouched, and no byte was read or written.
C26_OpenBeforeCreate ==
  /\ pc = "open" =>
       \A j \in 1..ndest : Untouched(dest[j][file_idx])
  /\ pc = "create" =>
       /\ source_file
       /\ \A j \in 1..dest_files : Truncated(dest[j][file_idx])
       /\ \A j \in (dest_files + 1)..ndest : Untouched(dest[j][file_idx])
  /\ (pc = "file_return" /\ file_result.err.op = "open") =>
       /\ file_result.kind = "err"
       /\ \A j \in 1..ndest : Untouched(dest[j][file_idx])
       /\ NothingMoved
  /\ (pc = "file_return" /\ file_result.err.op = "create") =>
       /\ file_result.kind = "err"
       /\ \A j \in 1..(file_result.err.who - 1) :
            Truncated(dest[j][file_idx])
       /\ \A j \in (file_result.err.who + 1)..ndest :
            Untouched(dest[j][file_idx])
       /\ NothingMoved

\* the creation of the first of two destinations failed for the second
\* file of a tree, whose first file was copied
C26_Witness ==
  /\ pc = "file_return" /\ ndest = 2 /\ file_idx = 2
  /\ file_result = Err("create", 1)
  /\ dest[2][1].exists /\ ~dest[2][2].exists

====
